---- MODULE Spec2Model ----
(***************************************************************************)
(* Model of the two documentation crawlers of rtree/uniteDefi:             *)
(*   support-tools/get-bynext-loop-doc-1inchdev.py  (linked-list mode,     *)
(*       scrape_1inch_docs: follow the "Next" control page by page)        *)
(*   support-tools/get-byNav-doc-1inchdev.py        (target-list mode,     *)
(*       main / crawl_all_by_buttons: click a fixed list of buttons)       *)
(* Strings are sequences of one-character strings.  The browser, the       *)
(* portal and the file system are the environment: every value read from   *)
(* them (the URL after a click, a page title, whether a file is on disk,   *)
(* whether a call raises) is chosen nondeterministically.                  *)
(***************************************************************************)
EXTENDS Integers, Sequences, FiniteSets, TLC

(* ---------------- bounds of the model ---------------- *)
NumUrls == 2
MaxTitleLen == 1
MaxLabelLen == 1
MaxLabels == 2
MaxGap == 2
MaxGrowth == 2

(* ---------------- program constants ---------------- *)
STARTNUMBER == 83
POLL_ATTEMPTS == 50

URLS == 1..NumUrls
BASE_URL == 1

(* characters the environment uses to build titles and labels *)
TextChars == {"a", "/", ":"}

StringsUpTo(n) == UNION {[1..k -> TextChars] : k \in 0..n}

(* " - 1inch Developer Portal" *)
TITLE_SUFFIX ==
  <<" ", "-", " ", "1", "i", "n", "c", "h", " ", "D", "e", "v", "e", "l",
    "o", "p", "e", "r", " ", "P", "o", "r", "t", "a", "l">>

(* titles page.title() can return: with or without the portal suffix *)
PageTitles ==
  StringsUpTo(MaxTitleLen) \cup {t \o TITLE_SUFFIX : t \in StringsUpTo(MaxTitleLen)}

Labels == StringsUpTo(MaxLabelLen) \ {<<>>}

LabelLists == UNION {[1..k -> Labels] : k \in 1..MaxLabels}

(* ---------------- pure functions ---------------- *)

(* the character class of the regular expression  [\\/:*?"<>|]  *)
IllegalChars == {"\\", "/", ":", "*", "?", "\"", "<", ">", "|"}

SubChar_NoColon(c) == IF c \in (IllegalChars \ {":"}) THEN "_" ELSE c

SubChar(c) == IF c \in IllegalChars THEN "_" ELSE c

(* re.sub(r'[\\/:*?"<>|]', '_', name) *)
safe_filename(name) == [i \in 1..Len(name) |-> SubChar(name[i])]

StartsWith(s, pat) ==
  /\ Len(pat) <= Len(s)
  /\ SubSeq(s, 1, Len(pat)) = pat

(* str.replace(old, ""): remove every occurrence of old, left to right *)
RECURSIVE StrRemove(_, _)
StrRemove(s, old) ==
  IF s = <<>> THEN <<>>
  ELSE IF old # <<>> /\ StartsWith(s, old)
       THEN StrRemove(SubSeq(s, Len(old) + 1, Len(s)), old)
       ELSE <<Head(s)>> \o StrRemove(Tail(s), old)

DigitChar(d) ==
  CASE d = 0 -> "0" [] d = 1 -> "1" [] d = 2 -> "2" [] d = 3 -> "3"
    [] d = 4 -> "4" [] d = 5 -> "5" [] d = 6 -> "6" [] d = 7 -> "7"
    [] d = 8 -> "8" [] d = 9 -> "9"

RECURSIVE DecStr(_)
DecStr(n) == IF n < 10 THEN <<DigitChar(n)>>
             ELSE DecStr(n \div 10) \o <<DigitChar(n % 10)>>

(* format(n, "02d") for n >= 0 *)
Fmt02d(n) == IF n < 10 THEN <<"0">> \o DecStr(n) ELSE DecStr(n)

(* f"{page_num:02d}_{title}" *)
RawBase(n, title) == Fmt02d(n) \o <<"_">> \o title

(* title = page.title().replace(" - 1inch Developer Portal", "") *)
StripTitle(t) == StrRemove(t, TITLE_SUFFIX)

(* ---------------- state ---------------- *)
VARIABLES
  mode,              \* which script runs: "linked" or "target"
  pc,                \* position of the run in the script
  playwright,        \* the sync_playwright() context: "off", "running", "stopped"
  browser,           \* the launched browser: "none", "open", "closed"
  url,               \* page.url (0: no page loaded yet)
  visited,           \* visited_urls / visited
  page_num,          \* page_num (linked-list mode)
  scrollRemaining,   \* steps of `distance` between totalHeight and document.body.scrollHeight
  title,             \* title of the page being captured
  safe_base,         \* safe_base / safe of the page being captured
  attempt,           \* iterations of the current poll loop already run
  pdf_paths,         \* pdf_paths
  prev_url,          \* prev_url
  returned,          \* value returned by scrape_1inch_docs (set: it has returned)
  raised,            \* an exception is propagating / has left the run
  reason,            \* why the loop was left
  buttons_to_visit,  \* buttons_to_visit (target-list mode)
  idx,               \* index of the label the for loop is at
  records,           \* history: one entry per page whose artifacts were all written
  clicks,            \* history: clicks performed
  allClicksVisited,  \* history: every click so far landed on a URL already in visited
  landed,            \* history: URLs the clicks landed on
  pollExhausted      \* history: a poll loop ran all its attempts, none of which saw the file

vars == <<mode, pc, playwright, browser, url, visited, page_num, scrollRemaining,
          title, safe_base, attempt, pdf_paths, prev_url, returned, raised,
          reason, buttons_to_visit, idx, records, clicks, allClicksVisited, landed,
          pollExhausted>>

NoReturn == [set |-> FALSE, value |-> <<>>]

sessionVars == <<playwright, browser>>
pageVars == <<title, safe_base, attempt, scrollRemaining>>
histVars == <<records, clicks, allClicksVisited, landed, pollExhausted>>
targetVars == <<buttons_to_visit, idx>>

Init ==
  /\ mode \in {"linked", "target"}
  /\ pc = "start"
  /\ playwright = "off"
  /\ browser = "none"
  /\ url = 0
  /\ visited = {}
  /\ page_num = 0
  /\ scrollRemaining = 0
  /\ title = <<>>
  /\ safe_base = <<>>
  /\ attempt = 0
  /\ pdf_paths = <<>>
  /\ prev_url = 0
  /\ returned = NoReturn
  /\ raised = FALSE
  /\ reason = "none"
  /\ buttons_to_visit \in (IF mode = "target" THEN LabelLists ELSE {<<>>})
  /\ idx = 1
  /\ records = <<>>
  /\ clicks = 0
  /\ allClicksVisited = TRUE
  /\ landed = {}
  /\ pollExhausted = FALSE

(* ---------------- linked-list mode: scrape_1inch_docs ---------------- *)

(* with sync_playwright() as p: launch, new_context, new_page *)
Launch ==
  /\ mode = "linked" /\ pc = "start"
  /\ playwright' = "running"
  /\ browser' = "open"
  /\ pc' = "goto"
  /\ UNCHANGED <<mode, url, visited, page_num, pdf_paths, prev_url, returned, raised,
                 reason, pageVars, histVars, targetVars>>

(* page.goto(base_url, wait_until="networkidle") *)
Goto ==
  /\ mode = "linked" /\ pc = "goto"
  /\ url' = BASE_URL
  /\ pc' = "dismiss"
  /\ UNCHANGED <<mode, sessionVars, visited, page_num, pdf_paths, prev_url, returned,
                 raised, reason, pageVars, histVars, targetVars>>

(* cookie consent and popup: both try/except blocks swallow their failures;
   then page_num = STARTNUMBER, visited_urls = set() *)
Dismiss ==
  /\ mode = "linked" /\ pc = "dismiss"
  /\ page_num' = STARTNUMBER
  /\ visited' = {}
  /\ pc' = "loop"
  /\ UNCHANGED <<mode, sessionVars, url, pdf_paths, prev_url, returned, raised, reason,
                 pageVars, histVars, targetVars>>

(* while True: current_url in visited_urls -> break *)
CycleStop ==
  /\ mode = "linked" /\ pc = "loop"
  /\ url \in visited
  /\ reason' = "cycle-detected"
  /\ pc' = "close"
  /\ UNCHANGED <<mode, sessionVars, url, visited, page_num, pdf_paths, prev_url,
                 returned, raised, pageVars, histVars, targetVars>>

(* visited_urls.add(current_url); scroll_to_bottom starts with totalHeight = 0 *)
Visit ==
  /\ mode = "linked" /\ pc = "loop"
  /\ url \notin visited
  /\ visited' = visited \cup {url}
  /\ scrollRemaining' \in 0..MaxGap
  /\ pc' = "scroll"
  /\ UNCHANGED <<mode, sessionVars, url, page_num, pdf_paths, prev_url, returned,
                 raised, reason, title, safe_base, attempt, histVars, targetVars>>

(* one iteration of  while (totalHeight < document.body.scrollHeight):
   totalHeight grows by one step (distance) and, before the condition is
   read again, lazy loading may have grown scrollHeight by g steps; only the
   difference of the two is kept, so that the state space stays finite *)
ScrollStep ==
  /\ mode = "linked" /\ pc = "scroll"
  /\ scrollRemaining > 0
  /\ \E g \in 0..MaxGrowth :
       /\ scrollRemaining - 1 + g <= MaxGap
       /\ scrollRemaining' = scrollRemaining - 1 + g
  /\ UNCHANGED <<mode, pc, sessionVars, url, visited, page_num, pdf_paths, prev_url,
                 returned, raised, reason, title, safe_base, attempt, histVars,
                 targetVars>>

(* the loop condition is false: scroll_to_bottom returns, reset_scroll runs *)
ScrollDone ==
  /\ mode = "linked" /\ pc = "scroll"
  /\ scrollRemaining = 0
  /\ pc' = "shot"
  /\ UNCHANGED <<mode, sessionVars, url, visited, page_num, pdf_paths, prev_url,
                 returned, raised, reason, pageVars, histVars, targetVars>>

(* title, safe_base, img_path, txt_path; page.screenshot(path=img_path) *)
Screenshot ==
  /\ mode = "linked" /\ pc = "shot"
  /\ \E t \in PageTitles :
       /\ title' = StripTitle(t)
       /\ safe_base' = safe_filename(RawBase(page_num, StripTitle(t)))
  /\ pc' = "text"
  /\ UNCHANGED <<mode, sessionVars, url, visited, page_num, pdf_paths, prev_url,
                 returned, raised, reason, attempt, scrollRemaining, histVars, targetVars>>

(* page_text = ...; with open(txt_path, "w") as f: f.write(page_text) *)
WriteText ==
  /\ mode = "linked" /\ pc = "text"
  /\ attempt' = 0
  /\ pc' = "pollimg"
  /\ UNCHANGED <<mode, sessionVars, url, visited, page_num, pdf_paths, prev_url,
                 returned, raised, reason, title, safe_base, scrollRemaining,
                 histVars, targetVars>>

(* for _ in range(50): the check finds no file of non-zero size;
   time.sleep(0.1) *)
PollSleep ==
  /\ mode = "linked" /\ pc \in {"pollimg", "pollpdf"}
  /\ attempt < POLL_ATTEMPTS
  /\ attempt' = attempt + 1
  /\ UNCHANGED <<mode, pc, sessionVars, url, visited, page_num, pdf_paths, prev_url,
                 returned, raised, reason, title, safe_base, scrollRemaining, histVars,
                 targetVars>>

(* the loop is left by break (this check finds the file) or by exhaustion *)
PollLeaves == attempt <= POLL_ATTEMPTS

(* the screenshot poll ends (break, or all attempts used);
   pdf_paths.append(img_path); the loop counter and the last check are dead *)
ImgPolled ==
  /\ mode = "linked" /\ pc = "pollimg"
  /\ PollLeaves
  /\ pollExhausted' = (pollExhausted \/ attempt = POLL_ATTEMPTS)
  /\ pdf_paths' = Append(pdf_paths, [base |-> safe_base, ext |-> "png"])
  /\ attempt' = 0
  /\ pc' = "pdf"
  /\ UNCHANGED <<mode, sessionVars, url, visited, page_num, prev_url, returned, raised,
                 reason, title, safe_base, scrollRemaining, records, clicks,
                 allClicksVisited, landed, targetVars>>

(* pdf_path = ...; page.pdf(path=pdf_path, format="A4") *)
Pdf ==
  /\ mode = "linked" /\ pc = "pdf"
  /\ attempt' = 0
  /\ pc' = "pollpdf"
  /\ UNCHANGED <<mode, sessionVars, url, visited, page_num, pdf_paths, prev_url,
                 returned, raised, reason, title, safe_base, scrollRemaining, histVars,
                 targetVars>>

(* the PDF poll ends; pdf_paths.append(pdf_path): the page is complete *)
PdfPolled ==
  /\ mode = "linked" /\ pc = "pollpdf"
  /\ PollLeaves
  /\ pollExhausted' = (pollExhausted \/ attempt = POLL_ATTEMPTS)
  /\ pdf_paths' = Append(pdf_paths, [base |-> safe_base, ext |-> "pdf"])
  /\ records' = Append(records, [url |-> url, seq |-> page_num, base |-> safe_base])
  /\ attempt' = 0
  /\ pc' = "locate"
  /\ UNCHANGED <<mode, sessionVars, url, visited, page_num, prev_url, returned, raised,
                 reason, title, safe_base, scrollRemaining, clicks, allClicksVisited,
                 landed, targetVars>>

(* variant: the control is looked up before the page is captured *)
NextAbsent_Early ==
  /\ mode = "linked" /\ pc \in {"shot", "locate"}
  /\ reason' = "end-of-document"
  /\ pc' = "close"
  /\ UNCHANGED <<mode, sessionVars, url, visited, page_num, pdf_paths, prev_url,
                 returned, raised, pageVars, histVars, targetVars>>

(* next_link.count() == 0 -> break *)
NextAbsent ==
  /\ mode = "linked" /\ pc = "locate"
  /\ reason' = "end-of-document"
  /\ pc' = "close"
  /\ UNCHANGED <<mode, sessionVars, url, visited, page_num, pdf_paths, prev_url,
                 returned, raised, pageVars, histVars, targetVars>>

(* prev_url = page.url; next_link.last.click(): the portal decides where it leads *)
ClickNext ==
  /\ mode = "linked" /\ pc = "locate"
  /\ prev_url' = url
  /\ \E u \in URLS :
       /\ url' = u
       /\ allClicksVisited' = (allClicksVisited /\ u \in visited)
       /\ landed' = landed \cup {u}
  /\ clicks' = clicks + 1
  /\ pc' = "wait"
  /\ UNCHANGED <<mode, sessionVars, visited, page_num, pdf_paths, returned, raised,
                 reason, pageVars, records, pollExhausted, targetVars>>

(* variant: the counter is not advanced after a successful step *)
UrlChanged_NoIncrement ==
  /\ mode = "linked" /\ pc = "wait"
  /\ url # prev_url
  /\ pc' = "loop"
  /\ UNCHANGED <<mode, sessionVars, url, visited, page_num, pdf_paths, prev_url,
                 returned, raised, reason, pageVars, histVars, targetVars>>

(* variant: the wait accepts any URL, also the one the click started from *)
UrlChanged_NoCheck ==
  /\ mode = "linked" /\ pc = "wait"
  /\ page_num' = page_num + 1
  /\ pc' = "loop"
  /\ UNCHANGED <<mode, sessionVars, url, visited, pdf_paths, prev_url, returned, raised,
                 reason, pageVars, histVars, targetVars>>

(* page.wait_for_url(lambda url: url != prev_url) succeeds; page_num += 1 *)
UrlChanged ==
  /\ mode = "linked" /\ pc = "wait"
  /\ url # prev_url
  /\ page_num' = page_num + 1
  /\ pc' = "loop"
  /\ UNCHANGED <<mode, sessionVars, url, visited, pdf_paths, prev_url, returned, raised,
                 reason, pageVars, histVars, targetVars>>

(* the wait times out: except: ...; break *)
WaitTimeout ==
  /\ mode = "linked" /\ pc = "wait"
  /\ url = prev_url
  /\ reason' = "navigation-timeout"
  /\ pc' = "close"
  /\ UNCHANGED <<mode, sessionVars, url, visited, page_num, pdf_paths, prev_url,
                 returned, raised, pageVars, histVars, targetVars>>

(* print(...); return pdf_paths *)
Return ==
  /\ mode = "linked" /\ pc = "return"
  /\ returned' = [set |-> TRUE, value |-> pdf_paths]
  /\ pc' = "done"
  /\ UNCHANGED <<mode, sessionVars, url, visited, page_num, pdf_paths, prev_url, raised,
                 reason, pageVars, histVars, targetVars>>

(* ---------------- target-list mode: main, crawl_all_by_buttons ---------------- *)

(* with sync_playwright() as p: launch, new_page *)
TLaunch ==
  /\ mode = "target" /\ pc = "start"
  /\ playwright' = "running"
  /\ browser' = "open"
  /\ pc' = "t_goto"
  /\ UNCHANGED <<mode, url, visited, page_num, pdf_paths, prev_url, returned, raised,
                 reason, pageVars, histVars, targetVars>>

(* page.goto(BASE_URL); time.sleep(5) *)
TGoto ==
  /\ mode = "target" /\ pc = "t_goto"
  /\ url' = BASE_URL
  /\ pc' = "t_load"
  /\ UNCHANGED <<mode, sessionVars, visited, page_num, pdf_paths, prev_url, returned,
                 raised, reason, pageVars, histVars, targetVars>>

(* visited = set(); page.wait_for_load_state("networkidle") *)
TWaitLoad ==
  /\ mode = "target" /\ pc = "t_load"
  /\ visited' = {}
  /\ idx' = 1
  /\ pc' = "t_for"
  /\ UNCHANGED <<mode, sessionVars, url, page_num, pdf_paths, prev_url, returned, raised,
                 reason, pageVars, histVars, buttons_to_visit>>

(* try: get_by_role(...), wait_for(timeout=5000), click(), sleep: all succeed *)
TClick ==
  /\ mode = "target" /\ pc = "t_for"
  /\ idx <= Len(buttons_to_visit)
  /\ \E u \in URLS :
       /\ url' = u
       /\ landed' = landed \cup {u}
       /\ allClicksVisited' = (allClicksVisited /\ u \in visited)
  /\ clicks' = clicks + 1
  /\ pc' = "t_url"
  /\ UNCHANGED <<mode, sessionVars, visited, page_num, pdf_paths, prev_url, returned,
                 raised, reason, pageVars, records, pollExhausted, targetVars>>

(* variant: break instead of continue *)
TSkip_Break ==
  /\ mode = "target" /\ pc = "t_for"
  /\ idx <= Len(buttons_to_visit)
  /\ reason' = "end-of-list"
  /\ pc' = "close"
  /\ UNCHANGED <<mode, sessionVars, url, visited, page_num, pdf_paths, prev_url,
                 returned, raised, pageVars, histVars, targetVars>>

(* except Exception as e: print(f"Skip {label}: {e}"); continue *)
TSkip ==
  /\ mode = "target" /\ pc = "t_for"
  /\ idx <= Len(buttons_to_visit)
  /\ idx' = idx + 1
  /\ UNCHANGED <<mode, pc, sessionVars, url, visited, page_num, pdf_paths, prev_url,
                 returned, raised, reason, pageVars, histVars, buttons_to_visit>>

(* current_url = page.url; if current_url in visited: continue *)
TSeen ==
  /\ mode = "target" /\ pc = "t_url"
  /\ url \in visited
  /\ idx' = idx + 1
  /\ pc' = "t_for"
  /\ UNCHANGED <<mode, sessionVars, url, visited, page_num, pdf_paths, prev_url,
                 returned, raised, reason, pageVars, histVars, buttons_to_visit>>

(* visited.add(current_url); safe = safe_filename(label); png_path, txt_path *)
TVisit ==
  /\ mode = "target" /\ pc = "t_url"
  /\ url \notin visited
  /\ visited' = visited \cup {url}
  /\ title' = buttons_to_visit[idx]
  /\ safe_base' = safe_filename(buttons_to_visit[idx])
  /\ pc' = "t_shot"
  /\ UNCHANGED <<mode, sessionVars, url, page_num, pdf_paths, prev_url, returned, raised,
                 reason, attempt, scrollRemaining, histVars, targetVars>>

(* page.screenshot(path=png_path, full_page=True) *)
TScreenshot ==
  /\ mode = "target" /\ pc = "t_shot"
  /\ pc' = "t_text"
  /\ UNCHANGED <<mode, sessionVars, url, visited, page_num, pdf_paths, prev_url,
                 returned, raised, reason, pageVars, histVars, targetVars>>

(* content_text = ...; with open(txt_path, "w") as f: f.write(content_text) *)
TWriteText ==
  /\ mode = "target" /\ pc = "t_text"
  /\ records' = Append(records, [url |-> url, seq |-> idx, base |-> safe_base])
  /\ idx' = idx + 1
  /\ pc' = "t_for"
  /\ UNCHANGED <<mode, sessionVars, url, visited, page_num, pdf_paths, prev_url,
                 returned, raised, reason, pageVars, clicks, allClicksVisited, landed,
                 pollExhausted, buttons_to_visit>>

(* the for loop is exhausted: crawl_all_by_buttons returns to main *)
TEnd ==
  /\ mode = "target" /\ pc = "t_for"
  /\ idx > Len(buttons_to_visit)
  /\ reason' = "end-of-list"
  /\ pc' = "close"
  /\ UNCHANGED <<mode, sessionVars, url, visited, page_num, pdf_paths, prev_url,
                 returned, raised, pageVars, histVars, targetVars>>

(* ---------------- both scripts: leaving the run ---------------- *)

(* statements outside any try block that call the browser or the file system *)
RaisePoints == {"goto", "scroll", "shot", "text", "pdf", "locate",
                "t_goto", "t_load", "t_shot", "t_text"}

(* variant: the browser is launched outside any with block *)
Raise_Unscoped ==
  /\ pc \in RaisePoints
  /\ raised' = TRUE
  /\ reason' = "fault"
  /\ pc' = "done"
  /\ UNCHANGED <<mode, sessionVars, url, visited, page_num, pdf_paths, prev_url,
                 returned, pageVars, histVars, targetVars>>

(* such a call raises: the exception leaves the loop and the function and
   reaches the end of the with block *)
Raise ==
  /\ pc \in RaisePoints
  /\ raised' = TRUE
  /\ reason' = "fault"
  /\ pc' = "exit"
  /\ UNCHANGED <<mode, sessionVars, url, visited, page_num, pdf_paths, prev_url,
                 returned, pageVars, histVars, targetVars>>

(* browser.close() *)
Close ==
  /\ pc = "close"
  /\ browser' = "closed"
  /\ pc' = "exit"
  /\ UNCHANGED <<mode, playwright, url, visited, page_num, pdf_paths, prev_url,
                 returned, raised, reason, pageVars, histVars, targetVars>>

(* end of  with sync_playwright() as p:  the context manager stops the
   Playwright driver, which ends every browser it launched *)
WithExit ==
  /\ pc = "exit"
  /\ playwright' = "stopped"
  /\ browser' = IF browser = "open" THEN "closed" ELSE browser
  /\ pc' = IF raised \/ mode = "target" THEN "done" ELSE "return"
  /\ UNCHANGED <<mode, url, visited, page_num, pdf_paths, prev_url, returned, raised,
                 reason, pageVars, histVars, targetVars>>

Next ==
  \/ Launch \/ Goto \/ Dismiss \/ CycleStop \/ Visit \/ ScrollStep \/ ScrollDone
  \/ Screenshot \/ WriteText \/ PollSleep \/ ImgPolled \/ Pdf \/ PdfPolled
  \/ NextAbsent \/ ClickNext \/ UrlChanged \/ WaitTimeout \/ Return
  \/ TLaunch \/ TGoto \/ TWaitLoad \/ TClick \/ TSkip \/ TSeen \/ TVisit
  \/ TScreenshot \/ TWriteText \/ TEnd
  \/ Raise \/ Close \/ WithExit

Spec == Init /\ [][Next]_vars

(* the interpreter keeps executing the script while a statement is enabled *)
FairSpec == Spec /\ WF_vars(Next)

TypeOK ==
  /\ mode \in {"linked", "target"}
  /\ playwright \in {"off", "running", "stopped"}
  /\ browser \in {"none", "open", "closed"}
  /\ url \in 0..NumUrls
  /\ visited \subseteq URLS
  /\ attempt \in 0..POLL_ATTEMPTS
  /\ scrollRemaining \in 0..MaxGap
  /\ raised \in BOOLEAN

(* ---------------- properties ---------------- *)

(* no page of a linked-list run is half captured *)
PageBoundary ==
  /\ mode = "linked"
  /\ \/ pc \in {"loop", "locate", "wait", "close", "return"}
     \/ (pc \in {"exit", "done"} /\ ~raised)

(* C1, as stated: once N pages are materialized the Visited Set holds
   exactly N URLs and the pages carry the sequence numbers 1..N in order *)
C1_SeqFromOne ==
  PageBoundary =>
    /\ Cardinality(visited) = Len(records)
    /\ \A i \in 1..Len(records) : records[i].seq = i

(* C1, amended: once N pages are materialized the Visited Set holds exactly
   N URLs and the pages carry STARTNUMBER .. STARTNUMBER+N-1 in order *)
C1_SeqFromStartNumber ==
  PageBoundary =>
    /\ Cardinality(visited) = Len(records)
    /\ \A i \in 1..Len(records) : records[i].seq = STARTNUMBER + i - 1

C1_Witness ==
  /\ mode = "linked" /\ pc = "locate"
  /\ Len(records) = 2

(* a linked-list run that ended without an exception, clicked "Next" at
   least once, and whose every click landed on an already visited URL *)
OnlyVisitedClicks ==
  /\ mode = "linked" /\ pc = "done" /\ ~raised
  /\ clicks >= 1
  /\ allClicksVisited

(* C2, as stated: if every "Next" click leads to a visited URL the run
   stops after one step with reason cycle-detected and one page *)
C2_StopsCycleDetected ==
  OnlyVisitedClicks =>
    /\ reason = "cycle-detected"
    /\ Len(records) = 1

(* C2, amended: if every "Next" click leads to a visited URL the run stops
   after one step (one click) with reason navigation-timeout and one page *)
C2_StopsNavigationTimeout ==
  OnlyVisitedClicks =>
    /\ reason = "navigation-timeout"
    /\ clicks = 1
    /\ Len(records) = 1

C2_Witness ==
  /\ OnlyVisitedClicks
  /\ url = prev_url

(* C3: a run that stops because "Next" is absent on the first page (no
   click was made) has reason end-of-document, has captured exactly the
   start page before that, and performs no click or URL wait afterwards *)
C3_AbsentNextOnFirstPage ==
  (mode = "linked" /\ reason = "end-of-document" /\ clicks = 0) =>
    /\ Len(records) = 1
    /\ records[1].url = BASE_URL
    /\ visited = {BASE_URL}
    /\ Len(pdf_paths) = 2
    /\ pc \in {"close", "exit", "return", "done"}

C3_Witness ==
  /\ mode = "linked" /\ pc = "done"
  /\ reason = "end-of-document"
  /\ clicks = 0
  /\ returned = [set |-> TRUE, value |-> pdf_paths]

(* a target-list run whose for loop was left without an exception *)
TargetRunEnded == mode = "target" /\ pc = "done" /\ ~raised

(* C4, as stated: missing labels never abort the run, every label is
   processed, and artifacts are written for exactly the clicked labels *)
C4_EveryLocatedLabelWritten ==
  TargetRunEnded =>
    /\ idx = Len(buttons_to_visit) + 1
    /\ Len(records) = clicks

(* C4, amended: missing labels never abort the run, every label is
   processed, and artifacts are written for exactly the distinct URLs the
   clicked labels landed on (a label landing on a visited URL is skipped) *)
C4_EveryNewUrlWritten ==
  TargetRunEnded =>
    /\ idx = Len(buttons_to_visit) + 1
    /\ Len(records) = Cardinality(landed)
    /\ Len(records) <= clicks

C4_Witness ==
  /\ TargetRunEnded
  /\ Len(buttons_to_visit) = 2
  /\ clicks = 1
  /\ records # <<>>
  /\ records[1].seq = 2

(* C5: once a poll loop has used all its attempts without seeing the file,
   nothing more is recorded, clicked or visited in the run *)
C5_ExhaustedPollAborts ==
  [][pollExhausted =>
       /\ pdf_paths' = pdf_paths
       /\ records' = records
       /\ clicks' = clicks
       /\ visited' = visited]_vars

(* C6: the scroll routine always terminates *)
C6_ScrollTerminates == (pc = "scroll") ~> (pc # "scroll")

(* C7: no run of either script ends with the browser still open *)
C7_BrowserClosedAtEnd ==
  pc = "done" => (browser = "closed" /\ playwright = "stopped")

C7_Witness ==
  /\ pc = "done" /\ raised
  /\ browser = "closed"
  /\ Len(records) >= 1

(* C8: no two pages of one run are given the same artifact base name *)
C8_NoNameAllocatedTwice ==
  \A i, j \in 1..Len(records) :
    i # j => records[i].base # records[j].base

(* C9: a linked-list run ended by a navigation timeout or by a failing
   call has returned the artifact paths produced so far *)
C9_PartialResultsReturned ==
  (/\ mode = "linked" /\ pc = "done"
   /\ reason \in {"navigation-timeout", "fault"}
   /\ Len(pdf_paths) > 0)
  => returned = [set |-> TRUE, value |-> pdf_paths]

(* the string handed to safe_filename for the page being captured *)
NameInput == IF mode = "linked" THEN RawBase(page_num, title) ELSE title

NameComputed ==
  \/ (mode = "linked" /\ pc \in {"text", "pollimg", "pdf", "pollpdf", "locate", "wait"})
  \/ (mode = "target" /\ pc \in {"t_shot", "t_text"})

QuoteTitle == <<"Q", "u", "o", "t", "e", ":", " ", "B", "u", "i", "l", "d", "?">>

QuoteBase ==
  <<"0", "7", "_", "Q", "u", "o", "t", "e", "_", " ", "B", "u", "i", "l", "d", "_">>

(* C10: safe_filename keeps the length, replaces exactly the characters
   \ / : * ? " < > | by '_', leaves none of them, is idempotent, and
   title 'Quote: Build?' with sequence 7 gives '07_Quote_ Build_' *)
C10_SafeFilename ==
  /\ NameComputed =>
       /\ Len(safe_base) = Len(NameInput)
       /\ \A i \in 1..Len(NameInput) :
            safe_base[i] = (IF NameInput[i] \in {"\\", "/", ":", "*", "?", "\"", "<", ">", "|"}
                            THEN "_" ELSE NameInput[i])
       /\ \A i \in 1..Len(safe_base) :
            safe_base[i] \notin {"\\", "/", ":", "*", "?", "\"", "<", ">", "|"}
       /\ safe_filename(safe_base) = safe_base
  /\ \A c \in {"\\", "/", ":", "*", "?", "\"", "<", ">", "|"} :
       safe_filename(<<"a", c, "b">>) = <<"a", "_", "b">>
  /\ safe_filename(RawBase(7, StripTitle(QuoteTitle))) = QuoteBase
  /\ safe_filename(RawBase(7, StripTitle(QuoteTitle \o TITLE_SUFFIX))) = QuoteBase

C10_Witness ==
  /\ NameComputed
  /\ \E i \in 1..Len(NameInput) : NameInput[i] = ":"
  /\ \E i \in 1..Len(safe_base) : safe_base[i] = "_"

====
